---- MODULE Spec2Model ----
(***************************************************************************)
(* Model of the Conduit demo application (juntuu/demo-app): the server     *)
(* functions of src/auth.rs, src/app.rs, src/pages/*.rs and the data       *)
(* access layer of src/models/*.rs, acting on the SQLite tables user,      *)
(* follow, favorite, article, tag and comment, together with the session   *)
(* cookie each browser holds.                                              *)
(*                                                                         *)
(* Option<T> is modelled as a sequence of length 0 (None) or 1 (Some).     *)
(* Paths are sequences of one-character strings; the strings of articles   *)
(* (titles, descriptions, bodies, tags, slugs) are sequences of runs of    *)
(* equal characters.                                                       *)
(***************************************************************************)
EXTENDS Integers, Sequences, FiniteSets, TLC

VARIABLES
    user,       \* table user: set of rows [username, email, password, bio, image]
    follow,     \* table follow: set of rows [follower, followed]
    favorite,   \* table favorite: set of rows [user, article]
    article,    \* table article: set of rows [slug, title, description, body, author, ..]
    tag,        \* table tag: set of rows [article, tag]
    comment,    \* table comment: set of rows [id, article, user, body]
    cookie,     \* cookie[b]: the session cookie browser b holds, an Option of a token
    inflight,   \* inflight[b]: a register call of browser b suspended at its insert
    now,        \* the clock, seconds
    req,        \* the request last handled: its Cookie header, path and arguments
    resp        \* the response of the server function or middleware last run

vars == <<user, follow, favorite, article, tag, comment, cookie, inflight, now, req, resp>>

tables == <<user, follow, favorite, article, tag, comment>>

----------------------------------------------------------------------------
(* Bounds of the model                                                     *)

MaxComments == 1
MaxArticles == 2
MaxTime == 2592061

Usernames == {"alice", "bob"}
Emails == {"a@x.io", "b@x.io"}
Passwords == {"pw1", "pw2"}
Salts == {"s1"}
Browsers == {"b1", "b2"}

----------------------------------------------------------------------------
(* Option<T>                                                               *)

None == <<>>
Some(x) == <<x>>
is_some(o) == o # <<>>
unwrap(o) == o[1]

----------------------------------------------------------------------------
(* auth::password: Argon2 with a random salt.  A hash string carries its   *)
(* salt and the digest of (salt, password).                                *)

Argon2(salt, password) == <<salt, password>>

hash(password, salt) == [salt |-> salt, digest |-> Argon2(salt, password)]

verify(password, h) == Argon2(h.salt, password) = h.digest

----------------------------------------------------------------------------
(* Session tokens: HS256 JSON web tokens with claims sub and exp.  A token *)
(* is the claims together with the key that signed it; a cookie value that *)
(* is no JWT at all carries the key "malformed".                           *)

JWT_SECRET == "server-secret"
SessionSeconds == 2592000
Leeway == 60

encode(claims, key) == [sub |-> claims.sub, exp |-> claims.exp, key |-> key]

\* jsonwebtoken::decode with Validation::default(): the signature, then exp,
\* which is refused once it is more than the leeway in the past
decode(token, key, t) ==
    IF token.key = key /\ ~(token.exp < t - Leeway)
    THEN Some([sub |-> token.sub, exp |-> token.exp])
    ELSE None

EmptyValue == [sub |-> "", exp |-> 0, key |-> "malformed"]

----------------------------------------------------------------------------
(* Cookie headers.  A Cookie header is the sequence of its ';'-separated   *)
(* segments; a segment is pad spaces, a name, '=' and a value.             *)

Segment(pad, name, value) == [pad |-> pad, name |-> name, value |-> value]

trim_start(seg) == [seg EXCEPT !.pad = 0]

\* x.strip_prefix("session="): the segment must begin with the name itself
strip_prefix_session(seg) ==
    IF seg.pad = 0 /\ seg.name = "session" THEN Some(seg.value) ELSE None

\* the closure without trim_start
strip_session_untrimmed(seg) == strip_prefix_session(seg)

strip_session(seg) == strip_prefix_session(trim_start(seg))

RECURSIVE find_map_session(_)
find_map_session(segs) ==
    IF segs = <<>> THEN None
    ELSE IF is_some(strip_session(Head(segs))) THEN strip_session(Head(segs))
    ELSE find_map_session(Tail(segs))

get_username(headers, t) ==
    IF headers = None THEN None
    ELSE LET token == find_map_session(unwrap(headers))
         IN  IF token = None THEN None
             ELSE LET jwt == decode(unwrap(token), JWT_SECRET, t)
                  IN  IF jwt = None THEN None ELSE Some(unwrap(jwt).sub)

\* the Set-Cookie header of set_session_cookie and of clear_session_cookie
set_session_cookie(token) == [name |-> "session", value |-> token, expired |-> FALSE]

\* a Set-Cookie that empties the value and leaves the cookie in the jar
clear_session_cookie_kept == [name |-> "session", value |-> EmptyValue, expired |-> FALSE]

clear_session_cookie == [name |-> "session", value |-> EmptyValue, expired |-> TRUE]

set_username(username, t) ==
    set_session_cookie(encode([sub |-> username, exp |-> t + SessionSeconds], JWT_SECRET))

\* what a browser does with the Set-Cookie header of a response
Store(jar, set_cookie) ==
    IF set_cookie = None THEN jar
    ELSE IF unwrap(set_cookie).expired THEN None
    ELSE Some(unwrap(set_cookie).value)

OtherValue == [sub |-> "dark", exp |-> 0, key |-> "malformed"]

\* the Cookie header a browser sends for its jar: "name=value" pairs joined
\* by "; ", with another cookie before and after the session cookie or not
BrowserHeader(jar, before, after) ==
    LET first == IF before THEN <<Segment(0, "xsession", OtherValue)>> ELSE <<>>
        mid == IF jar = None THEN <<>>
               ELSE <<Segment(IF first = <<>> THEN 0 ELSE 1, "session", unwrap(jar))>>
        last == IF after
                THEN <<Segment(IF first \o mid = <<>> THEN 0 ELSE 1, "lang", OtherValue)>>
                ELSE <<>>
    IN  IF first \o mid \o last = <<>> THEN None ELSE Some(first \o mid \o last)

HeaderOf(jar) == BrowserHeader(jar, FALSE, FALSE)

authenticated_username(headers, t) == get_username(headers, t)

\* require_login that lets a request without session through, with no name
require_login_anonymous(headers, t) ==
    IF authenticated_username(headers, t) = None
    THEN [ok |-> TRUE, username |-> ""]
    ELSE [ok |-> TRUE, username |-> unwrap(authenticated_username(headers, t))]

require_login(headers, t) ==
    IF authenticated_username(headers, t) = None
    THEN [ok |-> FALSE, err |-> "Not logged in"]
    ELSE [ok |-> TRUE, username |-> unwrap(authenticated_username(headers, t))]

----------------------------------------------------------------------------
(* Responses: the value a server function returns and what it left in      *)
(* ResponseOptions (status, Location, Set-Cookie).                         *)

Ok(v) == [ok |-> TRUE, val |-> v]
Err(e) == [ok |-> FALSE, err |-> e]

Response(fn, by, result, status, location, set_cookie) ==
    [fn |-> fn, by |-> by, result |-> result, status |-> status,
     location |-> location, set_cookie |-> set_cookie]

NoResponse == Response("", "", Ok(<<>>), 200, None, None)

Request(headers, path, args) ==
    [headers |-> headers, path |-> path, args |-> args, at |-> now]

NoRequest == Request(None, <<>>, <<>>)

----------------------------------------------------------------------------
(* The schema of table user (migrations): username and email are unique.   *)

UserRow(username, email, password) ==
    [username |-> username, email |-> email, password |-> password,
     bio |-> None, image |-> None]

\* the columns of table user on which row collides with a row of rows
UniqueConflicts(rows, row) ==
    {f \in {"username", "email"} : \E r \in rows : r[f] = row[f]}

UserExists(username) == \E r \in user : r.username = username

----------------------------------------------------------------------------
(* auth.rs: register, login, logout                                        *)

\* User::create at its insert statement: the new table, or the violated columns
User_create(row) ==
    IF UniqueConflicts(user, row) = {} THEN Ok(user \cup {row})
    ELSE Err(UniqueConflicts(user, row))

\* register with the outcome of User::create ignored
register_unchecked(b, row) ==
    /\ user' = user \cup {row}
    /\ resp' = Response("register", b, Ok(<<>>), 302, Some("/"),
                        Some(set_username(row.username, now)))
    /\ cookie' = [cookie EXCEPT ![b] = Store(cookie[b], resp'.set_cookie)]

\* register once User::create has hashed the password
register(b, row) ==
    IF ~User_create(row).ok
    THEN /\ \E field \in User_create(row).err :
              resp' = Response("register", b, Err(<<"Already taken", field>>), 500, None, None)
         /\ UNCHANGED <<user, cookie>>
    ELSE /\ user' = User_create(row).val
         /\ resp' = Response("register", b, Ok(<<>>), 302, Some("/"),
                             Some(set_username(row.username, now)))
         /\ cookie' = [cookie EXCEPT ![b] = Store(cookie[b], resp'.set_cookie)]

Register(b, username, email, password, salt) ==
    /\ inflight[b] = None
    /\ req' = Request(HeaderOf(cookie[b]), <<>>, <<username, email, password>>)
    /\ register(b, UserRow(username, email, hash(password, salt)))
    /\ UNCHANGED <<follow, favorite, article, tag, comment, inflight, now>>

\* register up to the await of its insert statement
RegisterCall(b, username, email, password, salt) ==
    /\ inflight[b] = None
    /\ inflight' = [inflight EXCEPT ![b] = Some(UserRow(username, email, hash(password, salt)))]
    /\ UNCHANGED <<tables, cookie, now, req, resp>>

\* the insert statement of a suspended register and the rest of the handler
RegisterInsert(b) ==
    /\ inflight[b] # None
    /\ register(b, unwrap(inflight[b]))
    /\ inflight' = [inflight EXCEPT ![b] = None]
    /\ req' = Request(HeaderOf(cookie[b]), <<>>,
                      <<unwrap(inflight[b]).username, unwrap(inflight[b]).email>>)
    /\ UNCHANGED <<follow, favorite, article, tag, comment, now>>

\* login that only looks the user up
login_any_password(b, username, password) ==
    IF \E r \in user : r.username = username
    THEN Response("login", b, Ok(<<>>), 302, Some("/"), Some(set_username(username, now)))
    ELSE Response("login", b, Ok(<<>>), 403, None, None)

login(b, username, password) ==
    LET hashes == {r.password : r \in {x \in user : x.username = username}}
    IN  IF \E h \in hashes : verify(password, h)
        THEN Response("login", b, Ok(<<>>), 302, Some("/"), Some(set_username(username, now)))
        ELSE Response("login", b, Ok(<<>>), 403, None, None)

Login(b, username, password) ==
    /\ req' = Request(HeaderOf(cookie[b]), <<>>, <<username, password>>)
    /\ resp' = login(b, username, password)
    /\ cookie' = [cookie EXCEPT ![b] = Store(cookie[b], resp'.set_cookie)]
    /\ UNCHANGED <<tables, inflight, now>>

logout(b) == Response("logout", b, Ok(<<>>), 302, Some("/login"), Some(clear_session_cookie))

Logout(b) ==
    /\ req' = Request(HeaderOf(cookie[b]), <<>>, <<>>)
    /\ resp' = logout(b)
    /\ cookie' = [cookie EXCEPT ![b] = Store(cookie[b], resp'.set_cookie)]
    /\ UNCHANGED <<tables, inflight, now>>

\* logged_in_user: the user row of the session, if any
logged_in_user(b, headers) ==
    IF authenticated_username(headers, now) = None
    THEN Response("logged_in_user", b, Ok(None), 200, None, None)
    ELSE LET name == unwrap(authenticated_username(headers, now))
         IN  IF UserExists(name)
             THEN Response("logged_in_user", b, Ok(Some(name)), 200, None, None)
             ELSE Response("logged_in_user", b, Err("Could not find user"), 500, None, None)

----------------------------------------------------------------------------
(* pages/user.rs: settings, with User::update                              *)

\* User::update: one update statement, with or without the password column
User_update(username, email, bio, image, password) ==
    LET old == {r \in user : r.username = username}
        new == {[r EXCEPT !.email = email, !.bio = bio, !.image = image,
                          !.password = IF password = None THEN r.password
                                       ELSE unwrap(password)] : r \in old}
    IN  IF \E r \in old : \E o \in user \ old : o.email = email
        THEN Err("UNIQUE constraint failed: user.email")
        ELSE Ok((user \ old) \cup new)

settings(b, headers, email, image, bio, password, salt) ==
    LET login_ == require_login(headers, now)
        hashed == IF password = None THEN None ELSE Some(hash(unwrap(password), salt))
        res == User_update(login_.username, email, bio, image, hashed)
    IN  IF ~login_.ok
        THEN /\ resp' = Response("settings", b, Err(login_.err), 500, None, None)
             /\ UNCHANGED user
        ELSE IF ~res.ok
        THEN /\ resp' = Response("settings", b, Err("Could not update settings"), 500, None, None)
             /\ UNCHANGED user
        ELSE /\ resp' = Response("settings", b, Ok(<<>>), 302,
                                 Some(<<"/profile/", login_.username>>), None)
             /\ user' = res.val

----------------------------------------------------------------------------
(* auth.rs: auth_middleware                                                *)

starts_with(s, prefix) ==
    Len(s) >= Len(prefix) /\ SubSeq(s, 1, Len(prefix)) = prefix

redirect(b, path) == Response("auth_middleware", b, Ok("redirect"), 302, Some(path), None)

next_run(b) == Response("auth_middleware", b, Ok("next"), 200, None, None)

P_login == <<"/", "l", "o", "g", "i", "n">>
P_register == <<"/", "r", "e", "g", "i", "s", "t", "e", "r">>
P_settings == <<"/", "s", "e", "t", "t", "i", "n", "g", "s">>
P_editor == <<"/", "e", "d", "i", "t", "o", "r">>

\* the middleware without the lookup of the user
auth_middleware_no_lookup(b, headers, path) ==
    IF get_username(headers, now) # None
    THEN IF starts_with(path, P_login) \/ starts_with(path, P_register)
         THEN redirect(b, "/")
         ELSE next_run(b)
    ELSE IF starts_with(path, P_settings) \/ starts_with(path, P_editor)
         THEN redirect(b, "/login")
         ELSE next_run(b)

auth_middleware(b, headers, path) ==
    IF get_username(headers, now) # None /\ UserExists(unwrap(get_username(headers, now)))
    THEN IF starts_with(path, P_login) \/ starts_with(path, P_register)
         THEN redirect(b, "/")
         ELSE next_run(b)
    ELSE IF starts_with(path, P_settings) \/ starts_with(path, P_editor)
         THEN redirect(b, "/login")
         ELSE next_run(b)

----------------------------------------------------------------------------
(* Strings of articles (titles, descriptions, bodies, tags, slugs): a      *)
(* string is the sequence of its runs of equal characters, a run being a   *)
(* character and a count, so that a body of 20000 bytes is one run.        *)
(* "U+00E4" stands for one character outside ASCII, two bytes in UTF-8.    *)

LowerSeq == <<"a", "b", "c", "d", "e", "f", "g", "h", "i", "j", "k", "l", "m",
              "n", "o", "p", "q", "r", "s", "t", "u", "v", "w", "x", "y", "z">>
UpperSeq == <<"A", "B", "C", "D", "E", "F", "G", "H", "I", "J", "K", "L", "M",
              "N", "O", "P", "Q", "R", "S", "T", "U", "V", "W", "X", "Y", "Z">>
DigitSeq == <<"0", "1", "2", "3", "4", "5", "6", "7", "8", "9">>

Range(f) == {f[i] : i \in DOMAIN f}

AsciiLowercase == Range(LowerSeq)
AsciiUppercase == Range(UpperSeq)
AsciiAlphanumeric == Range(LowerSeq) \cup Range(UpperSeq) \cup Range(DigitSeq)

is_ascii_lowercase(c) == c \in AsciiLowercase
is_ascii_alphanumeric(c) == c \in AsciiAlphanumeric

to_ascii_lowercase(c) ==
    IF c \in AsciiUppercase
    THEN LowerSeq[CHOOSE i \in DOMAIN UpperSeq : UpperSeq[i] = c]
    ELSE c

Run(c, n) == [c |-> c, n |-> n]

\* the runs of a string: no empty run, no two neighbours of the same character
RECURSIVE Norm(_)
Norm(s) ==
    IF s = <<>> THEN <<>>
    ELSE LET rest == Norm(Tail(s))
         IN  IF Head(s).n = 0 THEN rest
             ELSE IF rest # <<>> /\ rest[1].c = Head(s).c
             THEN <<Run(Head(s).c, Head(s).n + rest[1].n)>> \o Tail(rest)
             ELSE <<Head(s)>> \o rest

\* the string of a sequence of characters, and n times the character c
Str(chars) == Norm([i \in 1..Len(chars) |-> Run(chars[i], 1)])
Rep(c, n) == Norm(<<Run(c, n)>>)

\* String::make_ascii_lowercase
make_ascii_lowercase(s) == Norm([i \in 1..Len(s) |-> Run(to_ascii_lowercase(s[i].c), s[i].n)])

\* str::to_lowercase; the characters of the model outside ASCII have no case
to_lowercase(s) == make_ascii_lowercase(s)

Utf8Len(c) == IF c = "U+00E4" THEN 2 ELSE 1

\* str::len: the length in bytes
RECURSIVE len(_)
len(s) == IF s = <<>> THEN 0 ELSE Head(s).n * Utf8Len(Head(s).c) + len(Tail(s))

is_empty(s) == len(s) = 0

\* str::split(sep): the parts between the separators, empty parts included
RECURSIVE split(_, _)
split(s, sep) ==
    IF \A i \in 1..Len(s) : s[i].c # sep THEN <<s>>
    ELSE LET k == CHOOSE i \in 1..Len(s) : s[i].c = sep /\ \A j \in 1..(i - 1) : s[j].c # sep
             rest == Norm(<<Run(sep, s[k].n - 1)>>) \o SubSeq(s, k + 1, Len(s))
         IN  <<SubSeq(s, 1, k - 1)>> \o split(rest, sep)

\* str::split_whitespace: the non-empty runs between blanks
split_whitespace(s) == SelectSeq(split(s, " "), LAMBDA part : part # <<>>)

\* skip_while(|c| *c == '-')
skip_while_dash(s) == IF s # <<>> /\ Head(s).c = "-" THEN Tail(s) ELSE s

ends_with(s, c) == s # <<>> /\ s[Len(s)].c = c

push(s, c) == Norm(Append(s, Run(c, 1)))

----------------------------------------------------------------------------
(* models/article.rs                                                       *)

TitleMax == 100
DescriptionMax == 300
BodyMax == 20000
TagMax == 20

slug_from_title(title) ==
    LET kept == SelectSeq(title, LAMBDA r : r.c = " " \/ is_ascii_alphanumeric(r.c))
        mapped == Norm([i \in 1..Len(kept) |->
                          Run(IF kept[i].c = " " THEN "-" ELSE kept[i].c, kept[i].n)])
        slug == make_ascii_lowercase(skip_while_dash(mapped))
    IN  IF ends_with(slug, "-") THEN push(slug, "x") ELSE slug

invalid_tag(t) ==
    \/ len(t) > TagMax
    \/ \E part \in Range(split(t, "-")) :
          \/ is_empty(part)
          \/ \E j \in DOMAIN part : ~is_ascii_lowercase(part[j].c)

\* validate with every limit one byte too low
validate_exclusive(title, description, body, tags) ==
    (IF is_empty(title) THEN <<"missing title">>
     ELSE IF len(title) >= TitleMax THEN <<"too long title">> ELSE <<>>)
    \o (IF is_empty(description) THEN <<"missing description">>
        ELSE IF len(description) >= DescriptionMax THEN <<"too long description">> ELSE <<>>)
    \o (IF is_empty(body) THEN <<"missing body">>
        ELSE IF len(body) >= BodyMax THEN <<"too long body">> ELSE <<>>)
    \o (IF \E i \in DOMAIN tags : len(tags[i]) >= TagMax \/ invalid_tag(tags[i])
        THEN <<"invalid tag (must be short, lowercase a-z and in kebab-case)">> ELSE <<>>)

\* Article::validate: the error messages, none (None) when the sequence is empty
validate(title, description, body, tags) ==
    (IF is_empty(title) THEN <<"missing title">>
     ELSE IF len(title) > TitleMax THEN <<"too long title">> ELSE <<>>)
    \o (IF is_empty(description) THEN <<"missing description">>
        ELSE IF len(description) > DescriptionMax THEN <<"too long description">> ELSE <<>>)
    \o (IF is_empty(body) THEN <<"missing body">>
        ELSE IF len(body) > BodyMax THEN <<"too long body">> ELSE <<>>)
    \o (IF \E i \in DOMAIN tags : invalid_tag(tags[i])
        THEN <<"invalid tag (must be short, lowercase a-z and in kebab-case)">> ELSE <<>>)

\* the schema of tables article and tag (migrations): article.slug and
\* (tag.article, tag.tag) are primary keys, article.author references user
SlugTaken(slug) == \E a \in article : a.slug = slug

References_user(username) == \E r \in user : r.username = username

References_article(slug) == \E a \in article : a.slug = slug

TagTaken(rows, slug, t) == [article |-> slug, tag |-> t] \in rows

\* Article::add_tags: one insert per tag, stopping at the first that fails
RECURSIVE add_tags(_, _, _)
add_tags(slug, tags, rows) ==
    IF tags = <<>> THEN [ok |-> TRUE, rows |-> rows]
    ELSE IF TagTaken(rows, slug, Head(tags)) THEN [ok |-> FALSE, rows |-> rows]
    ELSE add_tags(slug, Tail(tags), rows \cup {[article |-> slug, tag |-> Head(tags)]})

clear_tags(slug, rows) == {r \in rows : r.article # slug}

ArticleRow(slug, title, description, body, author) ==
    [slug |-> slug, title |-> title, description |-> description, body |-> body,
     author |-> author, created_at |-> now, updated_at |-> None]

\* Article::create: the result and the tables article and tag it leaves
Article_create(author, title, description, body, tags) ==
    LET errors == validate(title, description, body, tags)
        slug == slug_from_title(title)
        added == add_tags(slug, tags, tag)
    IN  IF errors # <<>>
        THEN [res |-> Ok(Err(errors)), article |-> article, tag |-> tag]
        ELSE IF SlugTaken(slug) \/ ~References_user(author)
        THEN [res |-> Err("constraint failed"), article |-> article, tag |-> tag]
        ELSE [res |-> IF added.ok THEN Ok(Ok(slug)) ELSE Err("constraint failed"),
              article |-> article \cup {ArticleRow(slug, title, description, body, author)},
              tag |-> added.rows]

\* Article::update with the row found by its slug alone
Article_update_any_author(author, slug, title, description, body, tags) ==
    LET errors == validate(title, description, body, tags)
        hit == {a \in article : a.slug = slug}
        updated == {[a EXCEPT !.title = title, !.description = description,
                              !.body = body, !.updated_at = Some(now)] : a \in hit}
        added == add_tags(slug, tags, clear_tags(slug, tag))
    IN  IF errors # <<>>
        THEN [res |-> Ok(Some(errors)), article |-> article, tag |-> tag]
        ELSE IF Cardinality(hit) # 1
        THEN [res |-> Err("RowNotFound"), article |-> (article \ hit) \cup updated, tag |-> tag]
        ELSE [res |-> IF added.ok THEN Ok(None) ELSE Err("constraint failed"),
              article |-> (article \ hit) \cup updated,
              tag |-> added.rows]

\* Article::update: the result and the tables article and tag it leaves
Article_update(author, slug, title, description, body, tags) ==
    LET errors == validate(title, description, body, tags)
        hit == {a \in article : a.slug = slug /\ a.author = author}
        updated == {[a EXCEPT !.title = title, !.description = description,
                              !.body = body, !.updated_at = Some(now)] : a \in hit}
        added == add_tags(slug, tags, clear_tags(slug, tag))
    IN  IF errors # <<>>
        THEN [res |-> Ok(Some(errors)), article |-> article, tag |-> tag]
        ELSE IF Cardinality(hit) # 1
        THEN [res |-> Err("RowNotFound"), article |-> (article \ hit) \cup updated, tag |-> tag]
        ELSE [res |-> IF added.ok THEN Ok(None) ELSE Err("constraint failed"),
              article |-> (article \ hit) \cup updated,
              tag |-> added.rows]

\* Article::for_editing
Article_for_editing(slug, author) ==
    LET hit == {a \in article : a.slug = slug /\ a.author = author}
    IN  IF hit = {} THEN Err("RowNotFound")
        ELSE LET a == CHOOSE x \in hit : TRUE
             IN  Ok([title |-> a.title, description |-> a.description, body |-> a.body,
                     tags |-> {r.tag : r \in {x \in tag : x.article = slug}}])

----------------------------------------------------------------------------
(* app.rs: toggle_follow; pages/article.rs: toggle_favorite,               *)
(* delete_article, post_comment, delete_comment; pages/editor.rs           *)

NotLoggedIn(fn, b) == Response(fn, b, Err("Not logged in"), 500, None, None)

Returns(fn, b, result) == Response(fn, b, result, IF result.ok THEN 200 ELSE 500, None, None)

\* toggle_follow without the comparison of caller and target
toggle_follow_any(b, headers, target, current) ==
    LET login_ == require_login(headers, now)
        row == [follower |-> login_.username, followed |-> target]
    IN  IF ~login_.ok
        THEN resp' = NotLoggedIn("toggle_follow", b) /\ UNCHANGED follow
        ELSE IF current
        THEN /\ follow' = follow \ {row}
             /\ resp' = Returns("toggle_follow", b, Ok(row \in follow))
        ELSE IF ~References_user(row.follower) \/ ~References_user(row.followed)
        THEN resp' = Returns("toggle_follow", b, Err("database error")) /\ UNCHANGED follow
        ELSE /\ follow' = follow \cup {row}
             /\ resp' = Returns("toggle_follow", b, Ok(row \notin follow))

toggle_follow(b, headers, target, current) ==
    LET login_ == require_login(headers, now)
        row == [follower |-> login_.username, followed |-> target]
    IN  IF ~login_.ok
        THEN resp' = NotLoggedIn("toggle_follow", b) /\ UNCHANGED follow
        ELSE IF login_.username = target
        THEN resp' = Returns("toggle_follow", b, Ok(FALSE)) /\ UNCHANGED follow
        ELSE IF current
        THEN /\ follow' = follow \ {row}
             /\ resp' = Returns("toggle_follow", b, Ok(row \in follow))
        ELSE IF ~References_user(row.follower) \/ ~References_user(row.followed)
        THEN resp' = Returns("toggle_follow", b, Err("database error")) /\ UNCHANGED follow
        ELSE /\ follow' = follow \cup {row}
             /\ resp' = Returns("toggle_follow", b, Ok(row \notin follow))

\* toggle_favorite that only looks whether the article exists
toggle_favorite_any(b, headers, slug, current) ==
    LET login_ == require_login(headers, now)
        row == [user |-> login_.username, article |-> slug]
    IN  IF ~login_.ok
        THEN resp' = NotLoggedIn("toggle_favorite", b) /\ UNCHANGED favorite
        ELSE IF ~\E a \in article : a.slug = slug
        THEN resp' = Returns("toggle_favorite", b, Ok(FALSE)) /\ UNCHANGED favorite
        ELSE IF current
        THEN /\ favorite' = favorite \ {row}
             /\ resp' = Returns("toggle_favorite", b, Ok(row \in favorite))
        ELSE IF ~References_user(row.user) \/ ~References_article(row.article)
        THEN resp' = Returns("toggle_favorite", b, Err("database error")) /\ UNCHANGED favorite
        ELSE /\ favorite' = favorite \cup {row}
             /\ resp' = Returns("toggle_favorite", b, Ok(row \notin favorite))

toggle_favorite(b, headers, slug, current) ==
    LET login_ == require_login(headers, now)
        row == [user |-> login_.username, article |-> slug]
        \* select author = ? from article where slug = ?
        own == {a.author = login_.username : a \in {x \in article : x.slug = slug}}
    IN  IF ~login_.ok
        THEN resp' = NotLoggedIn("toggle_favorite", b) /\ UNCHANGED favorite
        ELSE IF own = {} \/ TRUE \in own
        THEN resp' = Returns("toggle_favorite", b, Ok(FALSE)) /\ UNCHANGED favorite
        ELSE IF current
        THEN /\ favorite' = favorite \ {row}
             /\ resp' = Returns("toggle_favorite", b, Ok(row \in favorite))
        ELSE IF ~References_user(row.user) \/ ~References_article(row.article)
        THEN resp' = Returns("toggle_favorite", b, Err("database error")) /\ UNCHANGED favorite
        ELSE /\ favorite' = favorite \cup {row}
             /\ resp' = Returns("toggle_favorite", b, Ok(row \notin favorite))

\* the schema (migrations): rows that reference an article go with it
Cascade(rows, slugs) == {r \in rows : r.article \notin slugs}

\* delete_article with the row found by its slug alone
delete_article_any_author(b, headers, slug) ==
    LET login_ == require_login(headers, now)
        hit == {a \in article : a.slug = slug}
    IN  IF ~login_.ok
        THEN resp' = NotLoggedIn("delete_article", b)
             /\ UNCHANGED <<article, tag, favorite, comment>>
        ELSE /\ article' = article \ hit
             /\ tag' = Cascade(tag, {a.slug : a \in hit})
             /\ favorite' = Cascade(favorite, {a.slug : a \in hit})
             /\ comment' = Cascade(comment, {a.slug : a \in hit})
             /\ resp' = Response("delete_article", b, Ok(<<>>), 302, Some("/"), None)

delete_article(b, headers, slug) ==
    LET login_ == require_login(headers, now)
        hit == {a \in article : a.slug = slug /\ a.author = login_.username}
    IN  IF ~login_.ok
        THEN resp' = NotLoggedIn("delete_article", b)
             /\ UNCHANGED <<article, tag, favorite, comment>>
        ELSE /\ article' = article \ hit
             /\ tag' = Cascade(tag, {a.slug : a \in hit})
             /\ favorite' = Cascade(favorite, {a.slug : a \in hit})
             /\ comment' = Cascade(comment, {a.slug : a \in hit})
             /\ resp' = Response("delete_article", b, Ok(<<>>), 302, Some("/"), None)

\* the rowid SQLite gives the next row of table comment
last_insert_rowid == IF comment = {} THEN 1
                     ELSE 1 + CHOOSE n \in {c.id : c \in comment} :
                                  \A c \in comment : c.id <= n

\* Comment::create
Comment_create(slug, username, body) ==
    IF ~References_article(slug) \/ ~References_user(username)
    THEN Err("constraint failed")
    ELSE Ok([id |-> last_insert_rowid, article |-> slug, user |-> username, body |-> body])

post_comment(b, headers, slug, body) ==
    LET login_ == require_login(headers, now)
        res == Comment_create(slug, login_.username, body)
    IN  IF ~login_.ok
        THEN resp' = NotLoggedIn("post_comment", b) /\ UNCHANGED comment
        ELSE IF ~res.ok
        THEN resp' = Returns("post_comment", b, res) /\ UNCHANGED comment
        ELSE /\ comment' = comment \cup {res.val}
             /\ resp' = Returns("post_comment", b, Ok(res.val.id))

delete_comment(b, headers, id) ==
    LET login_ == require_login(headers, now)
    IN  IF ~login_.ok
        THEN resp' = NotLoggedIn("delete_comment", b) /\ UNCHANGED comment
        ELSE /\ comment' = {c \in comment : ~(c.id = id /\ c.user = login_.username)}
             /\ resp' = Returns("delete_comment", b, Ok(<<>>))

get_article_for_editing(b, headers, slug) ==
    LET login_ == require_login(headers, now)
        res == Article_for_editing(slug, login_.username)
    IN  IF ~login_.ok THEN NotLoggedIn("get_article_for_editing", b)
        ELSE IF ~res.ok
        THEN Returns("get_article_for_editing", b, Err("could not get article for editing"))
        ELSE Returns("get_article_for_editing", b, res)

create_or_update_post(b, headers, slug, title, about, body, tags) ==
    LET login_ == require_login(headers, now)
        tagv == split_whitespace(to_lowercase(tags))
        upd == Article_update(login_.username, unwrap(slug), title, about, body, tagv)
        cre == Article_create(login_.username, title, about, body, tagv)
        out == IF slug # None THEN upd ELSE cre
        res == IF slug # None
               THEN IF ~upd.res.ok THEN Err("article update failed")
                    ELSE IF upd.res.val # None THEN Ok(Err(unwrap(upd.res.val)))
                    ELSE Ok(Ok(unwrap(slug)))
               ELSE IF ~cre.res.ok THEN Err("article creation failed")
                    ELSE cre.res
    IN  IF ~login_.ok
        THEN resp' = NotLoggedIn("create_or_update_post", b) /\ UNCHANGED <<article, tag>>
        ELSE /\ article' = out.article
             /\ tag' = out.tag
             /\ resp' = IF res.ok /\ res.val.ok
                        THEN Response("create_or_update_post", b, res, 302,
                                      Some(<<"/article/", res.val.val>>), None)
                        ELSE Returns("create_or_update_post", b, res)

ToggleFollow(b, target, current) ==
    /\ req' = Request(HeaderOf(cookie[b]), <<>>, <<target, current>>)
    /\ toggle_follow(b, req'.headers, target, current)
    /\ UNCHANGED <<user, favorite, article, tag, comment, cookie, inflight, now>>

ToggleFavorite(b, slug, current) ==
    /\ req' = Request(HeaderOf(cookie[b]), <<>>, <<slug, current>>)
    /\ toggle_favorite(b, req'.headers, slug, current)
    /\ UNCHANGED <<user, follow, article, tag, comment, cookie, inflight, now>>

DeleteArticle(b, slug) ==
    /\ req' = Request(HeaderOf(cookie[b]), <<>>, <<slug>>)
    /\ delete_article(b, req'.headers, slug)
    /\ UNCHANGED <<user, follow, cookie, inflight, now>>

PostComment(b, slug, body) ==
    /\ Cardinality(comment) < MaxComments
    /\ req' = Request(HeaderOf(cookie[b]), <<>>, <<slug, body>>)
    /\ post_comment(b, req'.headers, slug, body)
    /\ UNCHANGED <<user, follow, favorite, article, tag, cookie, inflight, now>>

DeleteComment(b, id) ==
    /\ req' = Request(HeaderOf(cookie[b]), <<>>, <<id>>)
    /\ delete_comment(b, req'.headers, id)
    /\ UNCHANGED <<user, follow, favorite, article, tag, cookie, inflight, now>>

GetArticleForEditing(b, slug) ==
    /\ req' = Request(HeaderOf(cookie[b]), <<>>, <<slug>>)
    /\ resp' = get_article_for_editing(b, req'.headers, slug)
    /\ UNCHANGED <<tables, cookie, inflight, now>>

CreateOrUpdatePost(b, slug, title, about, body, tags) ==
    /\ slug = None => Cardinality(article) < MaxArticles
    /\ req' = Request(HeaderOf(cookie[b]), <<>>, <<slug, title, about, body, tags>>)
    /\ create_or_update_post(b, req'.headers, slug, title, about, body, tags)
    /\ UNCHANGED <<user, follow, favorite, comment, cookie, inflight, now>>

\* calls of the data layer itself, by any author
ArticleCreate(author, in) ==
    LET out == Article_create(author, in.title, in.description, in.body, in.tags)
    IN  /\ req' = Request(None, <<>>, [author |-> author, slug |-> None, in |-> in])
        /\ article' = out.article
        /\ tag' = out.tag
        /\ resp' = Response("Article::create", "", out.res, 200, None, None)
        /\ UNCHANGED <<user, follow, favorite, comment, cookie, inflight, now>>

ArticleUpdate(author, slug, in) ==
    LET out == Article_update(author, slug, in.title, in.description, in.body, in.tags)
    IN  /\ req' = Request(None, <<>>, [author |-> author, slug |-> Some(slug), in |-> in])
        /\ article' = out.article
        /\ tag' = out.tag
        /\ resp' = Response("Article::update", "", out.res, 200, None, None)
        /\ UNCHANGED <<user, follow, favorite, comment, cookie, inflight, now>>

----------------------------------------------------------------------------
(* models/article.rs: Feed.  Column created_at is text that the schema     *)
(* (migrations) fills with the time of the insert; the text of an instant  *)
(* is modelled by the instant, text order being the order of the instants. *)

\* FeedOptions::default: after is "~", greater than any date string
Tilde == MaxTime + 1
DefaultLimit == 20

FeedOptions(after, limit, user_) == [after |-> after, limit |-> limit, user |-> user_]

FeedOptions_default == FeedOptions(Tilde, DefaultLimit, None)

\* feed_query!: the Article of a row of article join user
feed_query(row, author) ==
    [slug |-> row.slug, title |-> row.title, description |-> row.description,
     body |-> row.body, created_at |-> row.created_at, updated_at |-> row.updated_at,
     tags |-> {}, favorited |-> FALSE, favorites_count |-> 0,
     author |-> [username |-> row.author, bio |-> author.bio, image |-> author.image,
                 following |-> FALSE]]

\* select article.*, user.bio, user.image
\* from article join user on article.author = user.username
joined ==
    {feed_query(p[1], p[2]) : p \in {q \in article \X user : q[1].author = q[2].username}}

\* order by article.created_at desc: rows of equal created_at in any order
order_by_created_at_desc(rows) ==
    {seq \in [1..Cardinality(rows) -> rows] :
        \A i, j \in 1..Cardinality(rows) :
           i < j => seq[i] # seq[j] /\ seq[i].created_at >= seq[j].created_at}

\* limit ?
limit_(seq, n) == SubSeq(seq, 1, IF n < Len(seq) THEN n ELSE Len(seq))

\* fetch_all of a feed query: the sequences it can return for the rows of its where
fetch_all(rows, options) ==
    {limit_(seq, options.limit) : seq \in order_by_created_at_desc(rows)}

\* Feed::fill_details where every user counts as the reader's favorite and followed
fill_details_of_anyone(articles, options) ==
    [i \in 1..Len(articles) |->
        [articles[i] EXCEPT
            !.tags = {r.tag : r \in {x \in tag : x.article = articles[i].slug}},
            !.favorites_count = Cardinality({r \in favorite : r.article = articles[i].slug}),
            !.favorited = \E r \in favorite : r.article = articles[i].slug,
            !.author.following = \E r \in follow : r.followed = articles[i].author.username]]

\* Feed::fill_details
fill_details(articles, options) ==
    LET tags == [slug \in {r.article : r \in tag} |->
                    {r.tag : r \in {x \in tag : x.article = slug}}]
        fav_count == [slug \in {r.article : r \in favorite} |->
                         Cardinality({r \in favorite : r.article = slug})]
        favorited == IF options.user # None
                     THEN {r.article : r \in {x \in favorite : x.user = unwrap(options.user)}}
                     ELSE {}
        following == IF options.user # None
                     THEN {r.followed : r \in {x \in follow : x.follower = unwrap(options.user)}}
                     ELSE {}
    IN  [i \in 1..Len(articles) |->
            [articles[i] EXCEPT
                !.tags = IF articles[i].slug \in DOMAIN tags THEN tags[articles[i].slug] ELSE @,
                !.favorites_count = IF articles[i].slug \in DOMAIN fav_count
                                    THEN fav_count[articles[i].slug] ELSE @,
                !.favorited = articles[i].slug \in favorited,
                !.author.following = articles[i].author.username \in following]]

\* Feed::feed, global, by, favorited, tag: the feeds the call can return
Feed_feed(user_, options) ==
    {fill_details(articles, options) : articles \in
        fetch_all({r \in joined :
                      /\ r.created_at < options.after
                      /\ r.author.username \in
                            {f.followed : f \in {x \in follow : x.follower = user_}}},
                  options)}

Feed_global(options) ==
    {fill_details(articles, options) : articles \in
        fetch_all({r \in joined : r.created_at < options.after}, options)}

\* Feed::by without the condition on the author
Feed_by_anyone(user_, options) ==
    {fill_details(articles, options) : articles \in
        fetch_all({r \in joined : r.created_at < options.after}, options)}

Feed_by(user_, options) ==
    {fill_details(articles, options) : articles \in
        fetch_all({r \in joined : r.created_at < options.after /\ r.author.username = user_},
                  options)}

Feed_favorited(user_, options) ==
    {fill_details(articles, options) : articles \in
        fetch_all({r \in joined :
                      /\ r.created_at < options.after
                      /\ r.slug \in {f.article : f \in {x \in favorite : x.user = user_}}},
                  options)}

Feed_tag(t, options) ==
    {fill_details(articles, options) : articles \in
        fetch_all({r \in joined :
                      /\ r.created_at < options.after
                      /\ r.slug \in {f.article : f \in {x \in tag : x.tag = t}}},
                  options)}

\* a call of one of the five, and the feed it returns
FeedReturns(fn, arg, options, feeds) ==
    /\ req' = Request(None, <<>>, [arg |-> arg, options |-> options])
    /\ \E articles \in feeds :
          resp' = Response(fn, "", Ok([articles |-> articles]), 200, None, None)
    /\ UNCHANGED <<tables, cookie, inflight, now>>

FeedFeed(user_, options) ==
    FeedReturns("Feed::feed", user_, options, Feed_feed(user_, options))

FeedGlobal(options) ==
    FeedReturns("Feed::global", "", options, Feed_global(options))

FeedBy(user_, options) ==
    FeedReturns("Feed::by", user_, options, Feed_by(user_, options))

FeedFavorited(user_, options) ==
    FeedReturns("Feed::favorited", user_, options, Feed_favorited(user_, options))

FeedTag(t, options) ==
    FeedReturns("Feed::tag", t, options, Feed_tag(t, options))

----------------------------------------------------------------------------
(* pages/feed.rs: the Pagination component                                 *)

\* (0..count).step_by(limit): the starts from start on
RECURSIVE step_by(_, _, _)
step_by(start, count, limit) ==
    IF start < count THEN <<start>> \o step_by(start + limit, count, limit) ELSE <<>>

\* page_links with the end of a link's range counted in
page_links_inclusive(count, offset, limit) ==
    LET starts == step_by(0, count, limit)
    IN  [i \in 1..Len(starts) |->
            [class |-> IF starts[i] <= offset /\ offset <= starts[i] + limit
                       THEN "page-item active" ELSE "page-item",
             href |-> [offset |-> starts[i], limit |-> limit],
             text |-> (i - 1) + 1]]

\* page_links: the <li> elements, enumerate() counting from 0
page_links(count, offset, limit) ==
    LET starts == step_by(0, count, limit)
    IN  [i \in 1..Len(starts) |->
            [class |-> IF starts[i] <= offset /\ offset < starts[i] + limit
                       THEN "page-item active" ELSE "page-item",
             href |-> [offset |-> starts[i], limit |-> limit],
             text |-> (i - 1) + 1]]

\* the component rendered for a page and a count
Pagination(count, offset, limit) ==
    /\ req' = Request(None, <<>>, [count |-> count, offset |-> offset, limit |-> limit])
    /\ resp' = Response("Pagination", "", Ok(page_links(count, offset, limit)), 200, None, None)
    /\ UNCHANGED <<tables, cookie, inflight, now>>

----------------------------------------------------------------------------
(* Actions of the session layer                                            *)

Settings(b, email, image, bio, password, salt) ==
    /\ req' = Request(HeaderOf(cookie[b]), <<>>, <<email, image, bio, password>>)
    /\ settings(b, req'.headers, email, image, bio, password, salt)
    /\ UNCHANGED <<follow, favorite, article, tag, comment, cookie, inflight, now>>

LoggedInUser(b, before, after) ==
    /\ req' = Request(BrowserHeader(cookie[b], before, after), <<>>, <<>>)
    /\ resp' = logged_in_user(b, req'.headers)
    /\ UNCHANGED <<tables, cookie, inflight, now>>

AuthMiddleware(b, path, before, after) ==
    /\ req' = Request(BrowserHeader(cookie[b], before, after), path, <<>>)
    /\ resp' = auth_middleware(b, req'.headers, path)
    /\ UNCHANGED <<tables, cookie, inflight, now>>

\* a server function reads the session of its request
GetUsername(b, before, after) ==
    /\ req' = Request(BrowserHeader(cookie[b], before, after), <<>>, <<>>)
    /\ resp' = Response("get_username", b, authenticated_username(req'.headers, now),
                        200, None, None)
    /\ UNCHANGED <<tables, cookie, inflight, now>>

\* the instants around the expiry of the tokens the browsers hold
Instants ==
    UNION {{unwrap(cookie[b]).exp - 1, unwrap(cookie[b]).exp + 1,
            unwrap(cookie[b]).exp + Leeway, unwrap(cookie[b]).exp + Leeway + 1} :
           b \in {x \in Browsers : cookie[x] # None}}

\* time passes, up to instant t
Tick(t) ==
    /\ t > now
    /\ t <= MaxTime
    /\ now' = t
    /\ UNCHANGED <<tables, cookie, inflight, req, resp>>

\* a browser presents a cookie value this server did not hand to it
Tamper(b, value) ==
    /\ cookie' = [cookie EXCEPT ![b] = Some(value)]
    /\ UNCHANGED <<tables, inflight, now, req, resp>>

----------------------------------------------------------------------------
(* Initial state: an empty database, no cookies                            *)

Init ==
    /\ user = {}
    /\ follow = {}
    /\ favorite = {}
    /\ article = {}
    /\ tag = {}
    /\ comment = {}
    /\ cookie = [b \in Browsers |-> None]
    /\ inflight = [b \in Browsers |-> None]
    /\ now = 0
    /\ req = NoRequest
    /\ resp = NoResponse

OptionOf(S) == {None} \cup {Some(x) : x \in S}

(* Registration, login, logout and settings from two browsers *)
Next ==
    \/ \E b \in Browsers, u \in Usernames, e \in Emails, p \in Passwords, s \in Salts :
          Register(b, u, e, p, s)
    \/ \E b \in Browsers, u \in Usernames, p \in Passwords : Login(b, u, p)
    \/ \E b \in Browsers : Logout(b)
    \/ \E b \in Browsers, e \in Emails, p \in OptionOf(Passwords), s \in Salts :
          Settings(b, e, None, None, p, s)

Spec == Init /\ [][Next]_vars

(* Registrations that overlap at the insert statement *)
NextRegister ==
    \/ \E b \in Browsers, u \in Usernames, e \in Emails, p \in Passwords, s \in Salts :
          RegisterCall(b, u, e, p, s)
    \/ \E b \in Browsers : RegisterInsert(b)
    \/ \E b \in Browsers : Logout(b)

SpecRegister == Init /\ [][NextRegister]_vars

(* One browser, its Cookie header and the clock *)
SessionPaths ==
    {<<"/">>, P_login, P_login \o <<"x">>, SubSeq(P_login, 1, 4), P_register,
     P_settings, P_settings \o <<"/", "a">>, SubSeq(P_settings, 1, 8), P_editor,
     P_editor \o <<"/", "a">>, <<"/", "a", "p", "i">> \o P_login,
     <<"/", "a">> \o P_editor}

\* cookie values a client can make up: no token at all, a token signed with
\* another key, and a token of this server for a user the database lacks
TamperValues ==
    {EmptyValue,
     encode([sub |-> "alice", exp |-> 2 * SessionSeconds], "other-secret"),
     encode([sub |-> "ghost", exp |-> 2 * SessionSeconds], JWT_SECRET)}

NextSession ==
    \/ \E s \in Salts : Register("b1", "alice", "a@x.io", "pw1", s)
    \/ \E u \in Usernames, p \in Passwords : Login("b1", u, p)
    \/ Logout("b1")
    \/ \E t \in Instants : Tick(t)
    \/ \E v \in TamperValues : Tamper("b1", v)
    \/ \E path \in SessionPaths, before, after \in BOOLEAN :
          AuthMiddleware("b1", path, before, after)
    \/ \E before, after \in BOOLEAN : GetUsername("b1", before, after)
    \/ \E before, after \in BOOLEAN : LoggedInUser("b1", before, after)

SpecSession == Init /\ [][NextSession]_vars

(* The social graph: follows, favorites, articles coming and going *)
EmailOf(u) == IF u = "alice" THEN "a@x.io" ELSE "b@x.io"

SocialSlugs == {Str(<<"a">>), Str(<<"b">>)}
SocialTitles == {Str(<<"a">>), Str(<<"B">>)}

NextSocial ==
    \/ \E b \in Browsers, u \in Usernames, s \in Salts : Register(b, u, EmailOf(u), "pw1", s)
    \/ \E b \in Browsers : Logout(b)
    \/ \E b \in Browsers, u \in Usernames \cup {"ghost"}, current \in BOOLEAN :
          ToggleFollow(b, u, current)
    \/ \E b \in Browsers, slug \in SocialSlugs, current \in BOOLEAN :
          ToggleFavorite(b, slug, current)
    \/ \E b \in Browsers, title \in SocialTitles :
          CreateOrUpdatePost(b, None, title, Str(<<"d">>), Str(<<"t">>), <<>>)
    \/ \E b \in Browsers, slug \in SocialSlugs : DeleteArticle(b, slug)

SpecSocial == Init /\ [][NextSocial]_vars

(* Every mutating server function, with and without a session *)
NextMutate ==
    \/ \E u \in Usernames, s \in Salts : Register("b1", u, EmailOf(u), "pw1", s)
    \/ Logout("b1")
    \/ Tamper("b1", encode([sub |-> "alice", exp |-> SessionSeconds], "other-secret"))
    \/ Tick(SessionSeconds + Leeway + 1)
    \/ \E current \in BOOLEAN : ToggleFollow("b1", "alice", current)
    \/ \E current \in BOOLEAN : ToggleFavorite("b1", Str(<<"a">>), current)
    \/ \E slug \in OptionOf({Str(<<"a">>)}), tags \in {<<>>, Str(<<"X", " ", "y">>)} :
          CreateOrUpdatePost("b1", slug, Str(<<"a">>), Str(<<"d">>), Str(<<"t">>), tags)
    \/ DeleteArticle("b1", Str(<<"a">>))
    \/ PostComment("b1", Str(<<"a">>), Str(<<"h", "i">>))
    \/ \E id \in 1..MaxComments : DeleteComment("b1", id)
    \/ Settings("b1", "a@x.io", None, Some("bio"), None, "s1")

SpecMutate == Init /\ [][NextMutate]_vars

(* Articles written and edited through the data layer *)
Fields(title, description, body, tags) ==
    [title |-> title, description |-> description, body |-> body, tags |-> tags]

BaseFields == Fields(Str(<<"A", " ", "b">>), Str(<<"d">>), Str(<<"t">>), <<>>)

\* every field as long as it may be
LongestFields ==
    Fields(Rep("a", TitleMax), Rep("d", DescriptionMax), Rep("t", BodyMax),
           <<Rep("a", TagMax), Str(<<"a", "-", "b">>)>>)

EditTitles == {<<>>, Rep("a", TitleMax + 1), Rep("U+00E4", 51)}
EditDescriptions == {<<>>, Rep("d", DescriptionMax + 1)}
EditBodies == {<<>>, Rep("t", BodyMax + 1)}
EditTags ==
    {<<Rep("a", TagMax + 1)>>, <<Str(<<>>)>>, <<Str(<<"a", "-", "-", "b">>)>>,
     <<Str(<<"-", "a">>)>>, <<Str(<<"a", "-">>)>>, <<Str(<<"a">>), Str(<<"A">>)>>,
     <<Str(<<"a", "1">>)>>}

\* fields that are valid, the longest fields with one field replaced by a
\* value that is not, and fields with several such values
EditInputs ==
    {BaseFields, LongestFields, [BaseFields EXCEPT !.tags = <<Str(<<"a">>), Str(<<"a">>)>>]}
    \cup {[LongestFields EXCEPT !.title = x] : x \in EditTitles}
    \cup {[LongestFields EXCEPT !.description = x] : x \in EditDescriptions}
    \cup {[LongestFields EXCEPT !.body = x] : x \in EditBodies}
    \cup {[LongestFields EXCEPT !.tags = x] : x \in EditTags}
    \cup {Fields(<<>>, Rep("d", DescriptionMax + 1), <<>>, <<Str(<<"A">>)>>),
          Fields(Rep("a", TitleMax + 1), Str(<<"d">>), Str(<<"t">>), <<Str(<<"-">>)>>),
          Fields(Str(<<"a">>), <<>>, Rep("t", BodyMax + 1), <<Str(<<"a">>)>>)}

\* the slug of the base fields, and a slug that no title of EditInputs gives
EditSlugs == {Str(<<"a", "-", "b">>), Str(<<"a">>)}

NextArticle ==
    \/ \E s \in Salts : Register("b1", "alice", "a@x.io", "pw1", s)
    \/ \E s \in Salts : Register("b2", "bob", "b@x.io", "pw1", s)
    \/ \E author \in Usernames, in \in EditInputs : ArticleCreate(author, in)
    \/ \E author \in Usernames, slug \in EditSlugs, in \in EditInputs :
          ArticleUpdate(author, slug, in)
    \/ \E b \in Browsers, slug \in EditSlugs : GetArticleForEditing(b, slug)

SpecArticle == Init /\ [][NextArticle]_vars

(* Feeds over articles, tags, favorites and follows *)
FeedUsers == {"alice", "bob"}
FeedTags == {Str(<<"x">>), Str(<<"y">>)}

\* the default options, and options with the instant 1 as after, 1 as limit
\* and a reader
FeedOptionsSet ==
    {FeedOptions_default,
     FeedOptions(Tilde, 1, Some("bob")),
     FeedOptions(1, DefaultLimit, Some("carol")),
     FeedOptions(1, 1, Some("bob"))}

\* alice, then carol, at browser b1 and bob at b2; article a of b1's user with
\* tag x, article b of bob with tags x and y; alice followed, a marked
NextFeed ==
    \/ \E s \in Salts : Register("b1", "alice", "a@x.io", "pw1", s)
    \/ \E s \in Salts : Register("b1", "carol", "c@x.io", "pw1", s)
    \/ \E s \in Salts : Register("b2", "bob", "b@x.io", "pw1", s)
    \/ CreateOrUpdatePost("b1", None, Str(<<"a">>), Str(<<"d">>), Str(<<"t">>), Str(<<"x">>))
    \/ CreateOrUpdatePost("b2", None, Str(<<"b">>), Str(<<"d">>), Str(<<"t">>),
                          Str(<<"x", " ", "Y">>))
    \/ \E b \in Browsers : ToggleFollow(b, "alice", FALSE)
    \/ \E b \in Browsers : ToggleFavorite(b, Str(<<"a">>), FALSE)
    \/ Tick(1)
    \/ \E u \in FeedUsers, options \in FeedOptionsSet : FeedFeed(u, options)
    \/ \E options \in FeedOptionsSet : FeedGlobal(options)
    \/ \E u \in FeedUsers, options \in FeedOptionsSet : FeedBy(u, options)
    \/ \E u \in FeedUsers, options \in FeedOptionsSet : FeedFavorited(u, options)
    \/ \E t \in FeedTags, options \in FeedOptionsSet : FeedTag(t, options)

SpecFeed == Init /\ [][NextFeed]_vars

(* The Pagination component over counts, offsets and limits *)
MaxCount == 12
MaxOffset == 14

\* small counts with small limits and the default limit 10, and counts around
\* the multiples of the greatest limit, 255
PageInputs ==
    {[count |-> c, offset |-> o, limit |-> l] :
        c \in 0..MaxCount, o \in 0..MaxOffset, l \in {1, 2, 3, 10}}
    \cup {[count |-> c, offset |-> o, limit |-> 255] :
             c \in {0, 1, 254, 255, 256, 510, 511},
             o \in {0, 1, 254, 255, 256, 509, 510, 511, 764, 765}}

NextPagination ==
    \E in \in PageInputs : Pagination(in.count, in.offset, in.limit)

SpecPagination == Init /\ [][NextPagination]_vars

----------------------------------------------------------------------------
(* Properties of the session layer                                         *)

\* the password p is the one the stored hash h was made from
Matches(p, h) == h.digest = <<h.salt, p>>

SessionFor(set_cookie, username) ==
    /\ set_cookie # None
    /\ unwrap(set_cookie).name = "session"
    /\ ~unwrap(set_cookie).expired
    /\ unwrap(set_cookie).value.sub = username
    /\ unwrap(set_cookie).value.key = JWT_SECRET

\* C5: login sets the session cookie of the given username and redirects to /
\* exactly when a user of that name exists and the password matches the stored
\* hash; otherwise no cookie, no redirect, status 403
C5_LoginIff ==
    resp.fn = "login" =>
        IF \E r \in user : r.username = req.args[1] /\ Matches(req.args[2], r.password)
        THEN /\ SessionFor(resp.set_cookie, req.args[1])
             /\ resp.location = Some("/")
             /\ cookie[resp.by] = Some(unwrap(resp.set_cookie).value)
        ELSE /\ resp.set_cookie = None
             /\ resp.location = None
             /\ resp.status = 403

\* a login with the right password after the password was changed in settings,
\* and a refused login of an existing user
C5_Witness ==
    /\ resp.fn = "login"
    /\ resp.location = Some("/")
    /\ \E r \in user : r.username = req.args[1] /\ r.username = "alice"
          /\ Matches("pw2", r.password)
    /\ \E r \in user : r.username = "bob" /\ Matches("pw1", r.password)

C5_WitnessRefused ==
    /\ resp.fn = "login"
    /\ resp.status = 403
    /\ \E r \in user : r.username = req.args[1]

\* C7: a logout answers with a redirect to /login and leaves the browser without
\* session cookie, and a browser that is not authenticated becomes authenticated
\* only by a successful login or register of its own
C7_Step ==
    /\ resp'.fn = "logout" =>
          /\ resp'.location = Some("/login")
          /\ cookie'[resp'.by] = None
          /\ authenticated_username(HeaderOf(cookie'[resp'.by]), now') = None
          /\ ~require_login(HeaderOf(cookie'[resp'.by]), now').ok
    /\ \A b \in Browsers :
          (/\ authenticated_username(HeaderOf(cookie[b]), now) = None
           /\ authenticated_username(HeaderOf(cookie'[b]), now') # None)
          => /\ resp'.fn \in {"login", "register"}
             /\ resp'.by = b
             /\ resp'.status = 302

C7_LogoutEndsSession == [][C7_Step]_vars

\* a logout sent with a valid session cookie
C7_Witness ==
    /\ resp.fn = "logout"
    /\ get_username(req.headers, now) # None
    /\ cookie[resp.by] = None

\* C6: a register whose username or email is taken fails with "Already taken"
\* naming such a column, adds no row and sets no cookie; any other register
\* adds exactly its row, sets the session of the new user and redirects to /;
\* usernames stay unique
C6_Step ==
    /\ \A b \in Browsers :
          (inflight[b] # None /\ inflight'[b] = None) =>
             LET row == unwrap(inflight[b])
                 taken == {f \in {"username", "email"} : \E r \in user : r[f] = row[f]}
             IN  IF taken # {}
                 THEN /\ ~resp'.result.ok
                      /\ resp'.result.err[1] = "Already taken"
                      /\ resp'.result.err[2] \in taken
                      /\ resp'.set_cookie = None
                      /\ user' = user
                      /\ cookie' = cookie
                 ELSE /\ resp'.result.ok
                      /\ user' = user \cup {row}
                      /\ Cardinality(user') = Cardinality(user) + 1
                      /\ SessionFor(resp'.set_cookie, row.username)
                      /\ cookie'[b] = Some(unwrap(resp'.set_cookie).value)
                      /\ resp'.location = Some("/")
    /\ \A r1, r2 \in user' : r1.username = r2.username => r1 = r2

C6_RegisterUnique == [][C6_Step]_vars

\* a register that failed on the username while the other browser's register of
\* the same username is still waiting for its insert
C6_Witness ==
    /\ resp.fn = "register"
    /\ ~resp.result.ok
    /\ resp.result.err[2] = "username"
    /\ \E b \in Browsers : /\ inflight[b] # None
                           /\ unwrap(inflight[b]).username = req.args[1]

\* the values of the session cookies of a Cookie header
SessionValues(headers) ==
    IF headers = None THEN {}
    ELSE {unwrap(headers)[i].value :
            i \in {j \in 1..Len(unwrap(headers)) : unwrap(headers)[j].name = "session"}}

HasPrefix(path, p) == Len(path) >= Len(p) /\ \A i \in 1..Len(p) : path[i] = p[i]

\* the request carries a token of this server, still accepted, of a user in the database
C4_Authenticated ==
    \E v \in SessionValues(req.headers) :
        /\ v.key = JWT_SECRET
        /\ req.at <= v.exp + Leeway
        /\ \E r \in user : r.username = v.sub

\* C4: the middleware redirects a request that is not authenticated and goes to
\* /settings... or /editor... to /login, an authenticated request to /login... or
\* /register... to /, and passes every other request to the inner handler
C4_Routes ==
    resp.fn = "auth_middleware" =>
        IF ~C4_Authenticated /\ (HasPrefix(req.path, P_settings) \/ HasPrefix(req.path, P_editor))
        THEN resp.result.val = "redirect" /\ resp.status = 302 /\ resp.location = Some("/login")
        ELSE IF C4_Authenticated
                /\ (HasPrefix(req.path, P_login) \/ HasPrefix(req.path, P_register))
        THEN resp.result.val = "redirect" /\ resp.status = 302 /\ resp.location = Some("/")
        ELSE resp.result.val = "next" /\ resp.location = None

\* a request to /editor/a with a token of this server that names no user
C4_Witness ==
    /\ resp.fn = "auth_middleware"
    /\ req.path = P_editor \o <<"/", "a">>
    /\ \E v \in SessionValues(req.headers) : v.key = JWT_SECRET /\ v.sub = "ghost"
    /\ user # {}
    /\ resp.location = Some("/login")

\* C8 as stated: get_username returns the user of a token of this server until
\* the token's expiry, and None without Cookie header, without session cookie,
\* for an expired token and for a token signed with another key
C8_AsStated ==
    resp.fn = "get_username" =>
        /\ \A v \in SessionValues(req.headers) :
              (v.key = JWT_SECRET /\ req.at < v.exp) => resp.result = Some(v.sub)
        /\ (\/ req.headers = None
            \/ SessionValues(req.headers) = {}
            \/ \E v \in SessionValues(req.headers) : req.at > v.exp \/ v.key # JWT_SECRET)
           => resp.result = None

\* C8: get_username returns the user of a token of this server until the
\* token's expiry, whatever cookies surround it, and None without Cookie header,
\* without session cookie, for a token whose expiry is more than 60 seconds
\* back and for a token signed with another key
C8_RoundTrip ==
    resp.fn = "get_username" =>
        /\ \A v \in SessionValues(req.headers) :
              (v.key = JWT_SECRET /\ req.at < v.exp) => resp.result = Some(v.sub)
        /\ (\/ req.headers = None
            \/ SessionValues(req.headers) = {}
            \/ \E v \in SessionValues(req.headers) :
                  req.at > v.exp + Leeway \/ v.key # JWT_SECRET)
           => resp.result = None

\* the token of a login read back one second before its expiry, between two
\* other cookies
C8_Witness ==
    /\ resp.fn = "get_username"
    /\ resp.result = Some("alice")
    /\ Len(unwrap(req.headers)) = 3
    /\ \E v \in SessionValues(req.headers) : req.at = v.exp - 1

----------------------------------------------------------------------------
(* Properties of the social graph and of the mutating server functions     *)

\* the users whose token, signed by this server and still accepted, the request carries
Callers(r) ==
    {v.sub : v \in {x \in SessionValues(r.headers) :
                       x.key = JWT_SECRET /\ r.at <= x.exp + Leeway}}

\* C1: no follow row has follower = followed, and a toggle_follow of a logged-in
\* user on themselves returns Ok(false) and changes no table, whatever current is
C1_Step ==
    /\ \A r \in follow' : r.follower # r.followed
    /\ (resp'.fn = "toggle_follow" /\ req'.args[1] \in Callers(req'))
          => resp'.result = Ok(FALSE) /\ tables' = tables

C1_NoSelfFollow == [][C1_Step]_vars

\* alice, following bob and followed by bob, toggles herself with current = false
C1_Witness ==
    /\ resp.fn = "toggle_follow"
    /\ req.args = <<"alice", FALSE>>
    /\ "alice" \in Callers(req)
    /\ resp.result = Ok(FALSE)
    /\ [follower |-> "alice", followed |-> "bob"] \in follow
    /\ [follower |-> "bob", followed |-> "alice"] \in follow

\* C2: no favorite row pairs a user with an article of that user, and a
\* toggle_favorite of a logged-in user on an article of their own or on a slug
\* without article returns Ok(false) and changes no table
C2_Step ==
    /\ \A f \in favorite' : \A a \in article' : a.slug = f.article => a.author # f.user
    /\ (/\ resp'.fn = "toggle_favorite"
        /\ \E u \in Callers(req') :
              \/ ~\E a \in article : a.slug = req'.args[1]
              \/ \E a \in article : a.slug = req'.args[1] /\ a.author = u)
          => resp'.result = Ok(FALSE) /\ tables' = tables

C2_NoOwnFavorite == [][C2_Step]_vars

\* bob toggles his own article b, re-created by him after alice had deleted
\* hers of that slug, while he holds a favorite on alice's article a
C2_Witness ==
    /\ resp.fn = "toggle_favorite"
    /\ req.args = <<Str(<<"b">>), FALSE>>
    /\ "bob" \in Callers(req)
    /\ resp.result = Ok(FALSE)
    /\ \E a \in article : a.slug = Str(<<"b">>) /\ a.author = "bob"
    /\ [user |-> "bob", article |-> Str(<<"a">>)] \in favorite

MutatingFns ==
    {"toggle_follow", "toggle_favorite", "post_comment", "delete_comment",
     "delete_article", "create_or_update_post", "settings"}

\* C3: a mutating server function called without valid session token returns
\* the error "Not logged in" and leaves every table as it was
C3_Step ==
    (resp'.fn \in MutatingFns /\ Callers(req') = {})
       => resp'.result = Err("Not logged in") /\ tables' = tables

C3_NotLoggedIn == [][C3_Step]_vars

\* delete_article with an expired token of the article's author
C3_Witness ==
    /\ resp.fn = "delete_article"
    /\ resp.result = Err("Not logged in")
    /\ \E v \in SessionValues(req.headers) : v.key = JWT_SECRET /\ v.sub = "alice"
    /\ \E a \in article : a.slug = req.args[1] /\ a.author = "alice"
    /\ comment # {}

----------------------------------------------------------------------------
(* Properties of the articles' data layer                                  *)

\* one or more non-empty runs of a-z, joined by single dashes
KebabCase(t) ==
    /\ t # <<>>
    /\ \A i \in DOMAIN t :
          \/ t[i].c \in AsciiLowercase
          \/ t[i].c = "-" /\ t[i].n = 1 /\ 1 < i /\ i < Len(t)

\* the fields of an input that are not valid, in the order of the form
BadFields(in) ==
    (IF len(in.title) = 0 \/ len(in.title) > 100 THEN <<"title">> ELSE <<>>)
    \o (IF len(in.description) = 0 \/ len(in.description) > 300
        THEN <<"description">> ELSE <<>>)
    \o (IF len(in.body) = 0 \/ len(in.body) > 20000 THEN <<"body">> ELSE <<>>)
    \o (IF \E i \in DOMAIN in.tags : len(in.tags[i]) > 20 \/ ~KebabCase(in.tags[i])
        THEN <<"tags">> ELSE <<>>)

\* the response carries validation errors
Reported(r) ==
    /\ r.result.ok
    /\ IF r.fn = "Article::create" THEN ~r.result.val.ok ELSE r.result.val # None

ReportedErrors(r) ==
    IF r.fn = "Article::create" THEN r.result.val.err ELSE unwrap(r.result.val)

FieldOf(message) ==
    CASE message \in {"missing title", "too long title"} -> "title"
      [] message \in {"missing description", "too long description"} -> "description"
      [] message \in {"missing body", "too long body"} -> "body"
      [] OTHER -> "tags"

\* C9: Article::create and Article::update return validation errors exactly
\* when some field is not valid (title, description or body empty or longer
\* than 100, 300, 20000 bytes, a tag longer than 20 bytes or not in kebab-case);
\* they then change no table, and the messages name the invalid fields, one
\* message each, in the order title, description, body, tags
C9_Step ==
    resp'.fn \in {"Article::create", "Article::update"} =>
       /\ Reported(resp') <=> BadFields(req'.args.in) # <<>>
       /\ Reported(resp') =>
             /\ tables' = tables
             /\ [i \in 1..Len(ReportedErrors(resp')) |-> FieldOf(ReportedErrors(resp')[i])]
                   = BadFields(req'.args.in)

C9_ValidationErrors == [][C9_Step]_vars

\* an update with four invalid fields of an article that has tags
C9_Witness ==
    /\ resp.fn = "Article::update"
    /\ resp.result = Ok(Some(<<"missing title", "too long description", "missing body",
                               "invalid tag (must be short, lowercase a-z and in kebab-case)">>))
    /\ \E a \in article : a.slug = unwrap(req.args.slug) /\ a.author = req.args.author
    /\ \E r \in tag : r.article = unwrap(req.args.slug)

TagsOf(rows, slug) == {r \in rows : r.article = slug}

\* C10: Article::update with valid fields, by a user who is not the author of
\* the article or for a slug without article, fails with RowNotFound and leaves
\* tables article and tag as they were; no update changes the row or the tags
\* of another author's article; get_article_for_editing returns fields only to
\* the logged-in author, and they are the article's
C10_Step ==
    /\ (/\ resp'.fn = "Article::update"
        /\ BadFields(req'.args.in) = <<>>
        /\ ~\E a \in article : a.slug = unwrap(req'.args.slug) /\ a.author = req'.args.author)
          => resp'.result = Err("RowNotFound") /\ article' = article /\ tag' = tag
    /\ resp'.fn = "Article::update" =>
          \A a \in article :
             a.author # req'.args.author =>
                a \in article' /\ TagsOf(tag', a.slug) = TagsOf(tag, a.slug)
    /\ (resp'.fn = "get_article_for_editing" /\ resp'.result.ok) =>
          \E a \in article :
             /\ a.slug = req'.args[1]
             /\ a.author \in Callers(req')
             /\ resp'.result.val.title = a.title
             /\ resp'.result.val.description = a.description
             /\ resp'.result.val.body = a.body
             /\ resp'.result.val.tags = {r.tag : r \in TagsOf(tag, a.slug)}

C10_OnlyAuthorEdits == [][C10_Step]_vars

\* bob's update, with valid fields, of an article of alice's that has tags
C10_Witness ==
    /\ resp.fn = "Article::update"
    /\ resp.result = Err("RowNotFound")
    /\ req.args.author = "bob"
    /\ req.args.in = BaseFields
    /\ \E a \in article :
          /\ a.slug = unwrap(req.args.slug)
          /\ a.author = "alice"
          /\ a.title # BaseFields.title
    /\ \E r \in tag : r.article = unwrap(req.args.slug)

----------------------------------------------------------------------------
(* Properties of delete_article                                            *)

\* C11: delete_article removes the article of the given slug exactly when the
\* logged-in caller is its author, and no other article; called by another
\* user or for a slug without article it leaves every table as it was; no
\* article row disappears in any other way
C11_Step ==
    /\ resp'.fn = "delete_article" =>
          LET owned == {a \in article : a.slug = req'.args[1] /\ a.author \in Callers(req')}
          IN  /\ article' = article \ owned
              /\ owned = {} => tables' = tables
    /\ \A a \in article \ article' :
          resp'.fn = "delete_article" /\ a.slug = req'.args[1] /\ a.author \in Callers(req')

C11_OnlyAuthorDeletes == [][C11_Step]_vars

\* bob, logged in, has called delete_article on alice's article, which he
\* had marked as favorite
C11_Witness ==
    /\ resp.fn = "delete_article"
    /\ resp.result = Ok(<<>>)
    /\ Callers(req) = {"bob"}
    /\ \E a \in article : a.slug = req.args[1] /\ a.author = "alice"
    /\ [user |-> "bob", article |-> req.args[1]] \in favorite

----------------------------------------------------------------------------
(* Properties of the feeds                                                 *)

FeedFns == {"Feed::feed", "Feed::global", "Feed::by", "Feed::favorited", "Feed::tag"}

\* the rows of table article that the filter of feed variant fn with argument
\* arg selects
Selects(fn, arg, a) ==
    CASE fn = "Feed::by" -> a.author = arg
      [] fn = "Feed::favorited" -> [user |-> arg, article |-> a.slug] \in favorite
      [] fn = "Feed::tag" -> [article |-> a.slug, tag |-> arg] \in tag
      [] fn = "Feed::feed" -> [follower |-> arg, followed |-> a.author] \in follow
      [] OTHER -> TRUE

Wanted(fn, arg, options) ==
    {a \in article : Selects(fn, arg, a) /\ a.created_at < options.after}

\* C12: a feed holds only rows of table article that its variant's filter
\* selects (by: the author; favorited: a favorite row of the user; tag: a tag
\* row; feed: an author the user follows; global: all), created before
\* options.after, each once, newest first, at most options.limit of them, and
\* the rows left out are no newer than the rows returned
C12_Step ==
    resp'.fn \in FeedFns =>
       LET articles == resp'.result.val.articles
           options == req'.args.options
           wanted == Wanted(resp'.fn, req'.args.arg, options)
       IN  /\ \A i \in DOMAIN articles :
                 \E a \in wanted :
                    /\ a.slug = articles[i].slug
                    /\ a.title = articles[i].title
                    /\ a.author = articles[i].author.username
                    /\ a.created_at = articles[i].created_at
           /\ \A i, j \in DOMAIN articles :
                 i < j => /\ articles[i].slug # articles[j].slug
                          /\ articles[i].created_at >= articles[j].created_at
           /\ Len(articles) =
                 IF options.limit < Cardinality(wanted)
                 THEN options.limit ELSE Cardinality(wanted)
           /\ \A a \in wanted :
                 (\A i \in DOMAIN articles : articles[i].slug # a.slug)
                    => \A i \in DOMAIN articles : articles[i].created_at >= a.created_at

C12_FeedFilters == [][C12_Step]_vars

\* Feed::by for alice has returned her article and not the article of bob,
\* which is as old
C12_Witness ==
    /\ resp.fn = "Feed::by"
    /\ req.args.arg = "alice"
    /\ Len(resp.result.val.articles) = 1
    /\ resp.result.val.articles[1].author.username = "alice"
    /\ \E a \in article :
          /\ a.author = "bob"
          /\ a.created_at = resp.result.val.articles[1].created_at
          /\ a.created_at < req.args.options.after

\* C13: every article of a feed carries the number of its favorite rows as
\* favorites_count and its tag rows as tags; favorited tells whether
\* options.user has a favorite row for it and author.following whether
\* options.user follows its author, both false without options.user
C13_Step ==
    resp'.fn \in FeedFns =>
       LET articles == resp'.result.val.articles
           reader == req'.args.options.user
       IN  \A i \in DOMAIN articles :
              /\ articles[i].favorites_count =
                    Cardinality({r \in favorite : r.article = articles[i].slug})
              /\ articles[i].tags = {r.tag : r \in {x \in tag : x.article = articles[i].slug}}
              /\ articles[i].favorited <=>
                    /\ reader # None
                    /\ [user |-> unwrap(reader), article |-> articles[i].slug] \in favorite
              /\ articles[i].author.following <=>
                    /\ reader # None
                    /\ [follower |-> unwrap(reader),
                        followed |-> articles[i].author.username] \in follow

C13_FeedDetails == [][C13_Step]_vars

\* a feed read by carol with an article that she and bob marked, of an author
\* whom she follows, and an article that nobody marked, of an author whom
\* nobody follows
C13_Witness ==
    /\ resp.fn \in FeedFns
    /\ req.args.options.user = Some("carol")
    /\ \E i \in DOMAIN resp.result.val.articles :
          /\ resp.result.val.articles[i].favorites_count = 2
          /\ resp.result.val.articles[i].tags = {Str(<<"x">>)}
          /\ resp.result.val.articles[i].favorited
          /\ resp.result.val.articles[i].author.following
    /\ \E i \in DOMAIN resp.result.val.articles :
          /\ resp.result.val.articles[i].favorites_count = 0
          /\ resp.result.val.articles[i].tags = {Str(<<"x">>), Str(<<"y">>)}
          /\ ~resp.result.val.articles[i].favorited
          /\ ~resp.result.val.articles[i].author.following

----------------------------------------------------------------------------
(* Properties of the Pagination component                                  *)

\* the links rendered are ceil(count / limit), link k is numbered k, points to
\* offset (k - 1) * limit with the same limit, and is active exactly when its
\* range [start, start + limit) contains the offset
LinksOf(count, offset, limit, links) ==
    /\ Len(links) = (count + limit - 1) \div limit
    /\ \A k \in DOMAIN links :
          /\ links[k].text = k
          /\ links[k].href = [offset |-> (k - 1) * limit, limit |-> limit]
          /\ links[k].class \in {"page-item", "page-item active"}
          /\ links[k].class = "page-item active" <=>
                (k - 1) * limit <= offset /\ offset < (k - 1) * limit + limit

ActiveLinks(links) == {k \in DOMAIN links : links[k].class = "page-item active"}

\* C14 as stated: the links as above, exactly one of them active when
\* offset < count and none when offset >= count
C14_AsStated ==
    resp.fn = "Pagination" =>
       /\ LinksOf(req.args.count, req.args.offset, req.args.limit, resp.result.val)
       /\ req.args.offset < req.args.count => Cardinality(ActiveLinks(resp.result.val)) = 1
       /\ req.args.offset >= req.args.count => ActiveLinks(resp.result.val) = {}

\* C14: the links as above, exactly one of them active when the offset lies
\* below the end of the last link's range, ceil(count / limit) * limit, which
\* holds whenever offset < count, and none when it does not
C14_Pagination ==
    resp.fn = "Pagination" =>
       /\ LinksOf(req.args.count, req.args.offset, req.args.limit, resp.result.val)
       /\ req.args.offset < req.args.count => Cardinality(ActiveLinks(resp.result.val)) = 1
       /\ req.args.offset < Len(resp.result.val) * req.args.limit
             => Cardinality(ActiveLinks(resp.result.val)) = 1
       /\ req.args.offset >= Len(resp.result.val) * req.args.limit
             => ActiveLinks(resp.result.val) = {}

\* 5 articles in pages of 3 and offset 5: the second of two links is active
C14_Witness ==
    /\ resp.fn = "Pagination"
    /\ req.args = [count |-> 5, offset |-> 5, limit |-> 3]
    /\ Len(resp.result.val) = 2
    /\ ActiveLinks(resp.result.val) = {2}

====
